---- MODULE Spec2Model ----
(***************************************************************************)
(* Input declarations of dagster (dagster/_core/definitions/input.py):     *)
(* InputDefinition (the PortDeclaration), In (the PortTemplate),           *)
(* InputMapping with InputPointer / FanInInputPointer (the                 *)
(* BoundaryMapping), and the merge of a declaration with the properties    *)
(* inferred from a function signature.                                     *)
(*                                                                         *)
(* Python values are records [pytype, v]: pytype is the name of the        *)
(* value's Python type and v what tells two values of that type apart.     *)
(* A call that returns or raises is an outcome record [ok, val, err, msg]. *)
(***************************************************************************)
EXTENDS Integers, Sequences, FiniteSets, TLC

VARIABLES input_def, in_def, mapping, last

vars == <<input_def, in_def, mapping, last>>

----------------------------------------------------------------------------
(* Bounds of the model. *)

\* fan-in indices drawn from -1 .. MaxFanIn
MaxFanIn == 2

\* a constructor call supplies at most MaxArgs of its optional arguments
MaxArgs == 4

----------------------------------------------------------------------------
(* Python values. *)

PyVal(t, x) == [pytype |-> t, v |-> x]

PyNone == PyVal("NoneType", "None")
NoValueSentinel == PyVal("type", "NoValueSentinel")
ParameterEmpty == PyVal("type", "inspect._empty")
NoneTypeClass == PyVal("type", "NoneType")
IntClass == PyVal("type", "int")
BadSpecifier == PyVal("object", "unresolvable")

PyStr(s) == PyVal("str", s)
PyInt(i) == PyVal("int", i)
PySet(S) == PyVal("set", S)
PyDict(S) == PyVal("dict", S)
AssetKey(k) == PyVal("AssetKey", k)
PyFunction(f) == PyVal("function", f)
\* the closure `lambda _: _asset_partitions` with the captured set as v
PyLambdaConst(S) == PyVal("lambda", S)

DagsterType(k) == PyVal("DagsterType", k)
DagsterAny == DagsterType("Any")
DagsterInt == DagsterType("Int")
DagsterString == DagsterType("String")
DagsterNothing == DagsterType("Nothing")
DagsterNoneType == DagsterType("NoneType")

DagsterTypes == {DagsterAny, DagsterInt, DagsterString, DagsterNothing, DagsterNoneType}

\* Python's bool(x) for the values of the model
Truthy(x) ==
    CASE x.pytype = "NoneType" -> FALSE
      [] x.pytype = "str" -> x.v /= ""
      [] x.pytype = "int" -> x.v /= 0
      [] x.pytype = "set" -> x.v /= {}
      [] x.pytype = "dict" -> x.v /= {}
      [] OTHER -> TRUE

\* Python's callable(x)
Callable(x) == x.pytype \in {"function", "lambda"}

----------------------------------------------------------------------------
(* Outcomes: a returned value or a raised error. *)

NoObj == PyVal("absent", "absent")

\* about: the values an error message is formatted with; fresh: the value
\* returned is an object constructed by the call
Ok(x) == [ok |-> TRUE, val |-> x, err |-> "none", msg |-> "none", about |-> <<>>, fresh |-> FALSE, calls |-> <<>>]
Raise(e, m) == [ok |-> FALSE, val |-> NoObj, err |-> e, msg |-> m, about |-> <<>>, fresh |-> FALSE, calls |-> <<>>]
RaiseAbout(e, m, about) == [Raise(e, m) EXCEPT !.about = about]
New(x) == [Ok(x) EXCEPT !.fresh = TRUE]
Called(x, calls) == [Ok(x) EXCEPT !.calls = calls]

DagsterInvalidDefinitionError == "DagsterInvalidDefinitionError"
CheckError == "CheckError"
InvalidNameError == "InvalidNameError"
TypeResolutionError == "TypeResolutionError"

\* the error kinds that are DagsterError subclasses (caught by `except DagsterError`)
IsDagsterError(e) == e \in {DagsterInvalidDefinitionError, InvalidNameError, TypeResolutionError}

----------------------------------------------------------------------------
(* Collaborators outside input.py. *)

\* the names that match the identifier grammar, among the names of the model
ValidNames == {"x", "y"}

\* check_valid_name (.utils): the name, or the name error
check_valid_name(name) ==
    IF name \in ValidNames
    THEN Ok(name)
    ELSE Raise(InvalidNameError, "not a valid name")

\* resolve_dagster_type: None is Any, a DagsterType is itself, a Python type
\* is remapped, anything else cannot be resolved
resolve_dagster_type(dagster_type) ==
    CASE dagster_type = PyNone -> Ok(DagsterAny)
      [] dagster_type.pytype = "DagsterType" -> Ok(dagster_type)
      [] dagster_type = IntClass -> Ok(DagsterInt)
      [] dagster_type = NoneTypeClass -> Ok(DagsterNoneType)
      [] OTHER -> Raise(TypeResolutionError, "cannot resolve type")

\* DagsterType.is_nothing
is_nothing(dagster_type) == dagster_type = DagsterNothing

\* isinstance(dagster_type, BuiltinScalarDagsterType)
IsBuiltinScalar(dagster_type) == dagster_type \in {DagsterInt, DagsterString}

\* BuiltinScalarDagsterType.type_check_scalar_value(value).success
type_check_scalar_value(dagster_type, value) ==
    CASE dagster_type = DagsterInt -> value.pytype = "int"
      [] dagster_type = DagsterString -> value.pytype = "str"
      [] OTHER -> FALSE

\* check.opt_dict_param: None becomes the empty dict
opt_dict_param(metadata) == IF metadata = PyNone THEN PyDict({}) ELSE metadata

\* isinstance(x, (AssetKey, FunctionType)), None allowed (check.opt_inst_param)
opt_inst_asset_key_or_function(x) ==
    x = PyNone \/ x.pytype \in {"AssetKey", "function", "lambda"}

----------------------------------------------------------------------------
(* _check_default_value and InputDefinition.__init__ *)

\* `if default_value:` in place of `is not NoValueSentinel`
_check_default_value_if_truthy(input_name, dagster_type, default_value) ==
    IF default_value /= NoValueSentinel /\ Truthy(default_value)
    THEN IF is_nothing(dagster_type)
         THEN Raise(DagsterInvalidDefinitionError,
                    "Setting a default_value is invalid on InputDefinitions of type Nothing")
         ELSE IF IsBuiltinScalar(dagster_type)
                 /\ ~type_check_scalar_value(dagster_type, default_value)
              THEN Raise(DagsterInvalidDefinitionError,
                         "Type check failed for the default_value of InputDefinition")
              ELSE Ok(default_value)
    ELSE Ok(default_value)

\* the scalar check left out
_check_default_value_no_scalar_check(input_name, dagster_type, default_value) ==
    IF default_value /= NoValueSentinel /\ is_nothing(dagster_type)
    THEN Raise(DagsterInvalidDefinitionError,
               "Setting a default_value is invalid on InputDefinitions of type Nothing")
    ELSE Ok(default_value)

_check_default_value(input_name, dagster_type, default_value) ==
    IF default_value /= NoValueSentinel
    THEN IF is_nothing(dagster_type)
         THEN Raise(DagsterInvalidDefinitionError,
                    "Setting a default_value is invalid on InputDefinitions of type Nothing")
         ELSE IF IsBuiltinScalar(dagster_type)
                 /\ ~type_check_scalar_value(dagster_type, default_value)
              THEN Raise(DagsterInvalidDefinitionError,
                         "Type check failed for the default_value of InputDefinition")
              ELSE Ok(default_value)
    ELSE Ok(default_value)

\* the check of the two keys left out
manager_keys_conflict_never(root_manager_key, input_manager_key) == FALSE

\* `if root_manager_key and input_manager_key: raise`
manager_keys_conflict(root_manager_key, input_manager_key) ==
    Truthy(root_manager_key) /\ Truthy(input_manager_key)

\* `if asset_partitions: check.param_invariant(asset_key is not None, ...)` fails
asset_partitions_without_key(asset_key, asset_partitions) ==
    Truthy(asset_partitions) /\ ~(asset_key /= PyNone)

\* the value stored in _asset_partitions_fn
\* the empty set taken for no partitions
normalize_asset_partitions_if_truthy(asset_partitions) ==
    IF Callable(asset_partitions)
    THEN asset_partitions
    ELSE IF Truthy(asset_partitions)
         THEN PyLambdaConst(asset_partitions.v)
         ELSE PyNone

normalize_asset_partitions(asset_partitions) ==
    IF Callable(asset_partitions)
    THEN asset_partitions
    ELSE IF asset_partitions /= PyNone
         THEN PyLambdaConst(asset_partitions.v)
         ELSE PyNone

\* the two keys checked before the default
InputDefinition_keys_before_default(name, dagster_type, description, default_value, root_manager_key, metadata, asset_key, asset_partitions, input_manager_key) ==
    LET n == check_valid_name(name) IN
    IF ~n.ok THEN n ELSE
    LET t == resolve_dagster_type(dagster_type) IN
    IF ~t.ok THEN t ELSE
    IF manager_keys_conflict(root_manager_key, input_manager_key)
    THEN Raise(DagsterInvalidDefinitionError,
               "Can't supply both root input manager key and input manager key")
    ELSE
    LET dv == _check_default_value(n.val, t.val, default_value) IN
    IF ~dv.ok THEN dv ELSE
    IF asset_partitions_without_key(asset_key, asset_partitions)
    THEN Raise(CheckError,
               "Cannot specify asset_partitions argument without also specifying asset_key")
    ELSE
    New([cls |-> "InputDefinition",
        _name |-> n.val,
        _type_not_set |-> (dagster_type = PyNone),
        _dagster_type |-> t.val,
        _description |-> description,
        _default_value |-> dv.val,
        _root_manager_key |-> root_manager_key,
        _input_manager_key |-> input_manager_key,
        _metadata |-> opt_dict_param(metadata),
        _asset_key |-> asset_key,
        _asset_partitions_fn |-> normalize_asset_partitions(asset_partitions)])

InputDefinition(name, dagster_type, description, default_value, root_manager_key, metadata, asset_key, asset_partitions, input_manager_key) ==
    LET n == check_valid_name(name) IN
    IF ~n.ok THEN n ELSE
    LET t == resolve_dagster_type(dagster_type) IN
    IF ~t.ok THEN t ELSE
    LET dv == _check_default_value(n.val, t.val, default_value) IN
    IF ~dv.ok THEN dv ELSE
    IF manager_keys_conflict(root_manager_key, input_manager_key)
    THEN Raise(DagsterInvalidDefinitionError,
               "Can't supply both root input manager key and input manager key")
    ELSE
    IF asset_partitions_without_key(asset_key, asset_partitions)
    THEN Raise(CheckError,
               "Cannot specify asset_partitions argument without also specifying asset_key")
    ELSE
    New([cls |-> "InputDefinition",
        _name |-> n.val,
        _type_not_set |-> (dagster_type = PyNone),
        _dagster_type |-> t.val,
        _description |-> description,
        _default_value |-> dv.val,
        _root_manager_key |-> root_manager_key,
        _input_manager_key |-> input_manager_key,
        _metadata |-> opt_dict_param(metadata),
        _asset_key |-> asset_key,
        _asset_partitions_fn |-> normalize_asset_partitions(asset_partitions)])

----------------------------------------------------------------------------
(* Merging a declaration with the properties inferred from the signature. *)

\* InferredInputProps (.inference)
InferredInputProps(name, annotation, description, default_value) ==
    [name |-> name, annotation |-> annotation, description |-> description,
     default_value |-> default_value]

\* an annotation that does not resolve taken for no annotation
_checked_inferred_type_falls_back_to_any(inferred) ==
    LET resolved_type ==
            IF inferred.annotation = ParameterEmpty
            THEN resolve_dagster_type(PyNone)
            ELSE IF inferred.annotation = PyNone
                 THEN resolve_dagster_type(NoneTypeClass)
                 ELSE resolve_dagster_type(inferred.annotation)
    IN IF ~resolved_type.ok /\ IsDagsterError(resolved_type.err)
       THEN resolve_dagster_type(PyNone)
       ELSE resolved_type

\* the annotation None taken for no annotation
_checked_inferred_type_none_is_empty(inferred) ==
    LET resolved_type ==
            IF inferred.annotation = ParameterEmpty \/ inferred.annotation = PyNone
            THEN resolve_dagster_type(PyNone)
            ELSE resolve_dagster_type(inferred.annotation)
    IN IF ~resolved_type.ok /\ IsDagsterError(resolved_type.err)
       THEN RaiseAbout(DagsterInvalidDefinitionError,
                       "Problem using type from type annotation for argument",
                       <<inferred.annotation, inferred.name>>)
       ELSE resolved_type

_checked_inferred_type(inferred) ==
    LET resolved_type ==
            IF inferred.annotation = ParameterEmpty
            THEN resolve_dagster_type(PyNone)
            ELSE IF inferred.annotation = PyNone
                 THEN resolve_dagster_type(NoneTypeClass)
                 ELSE resolve_dagster_type(inferred.annotation)
    IN IF ~resolved_type.ok /\ IsDagsterError(resolved_type.err)
       THEN RaiseAbout(DagsterInvalidDefinitionError,
                       "Problem using type from type annotation for argument",
                       <<inferred.annotation, inferred.name>>)
       ELSE resolved_type

\* combine_with_inferred, lines 302-304: the type of the merged declaration
combine_dagster_type_always_inferred(self, inferred) ==
    _checked_inferred_type(inferred)

combine_dagster_type(self, inferred) ==
    IF self._type_not_set
    THEN _checked_inferred_type(inferred)
    ELSE Ok(self._dagster_type)

\* combine_with_inferred, lines 306-308: its description
combine_description_prefers_inferred(self, inferred) ==
    IF inferred.description /= PyNone
    THEN inferred.description
    ELSE self._description

combine_description(self, inferred) ==
    IF self._description = PyNone /\ inferred.description /= PyNone
    THEN inferred.description
    ELSE self._description

\* InputDefinition.has_default_value
has_default_value(self) == self._default_value /= NoValueSentinel

\* the properties name and dagster_type
name_property(self) == Ok(self._name)
dagster_type_property(self) == Ok(self._dagster_type)

\* the stored value returned also when there is no default
default_value_property_unguarded(self) == Ok(self._default_value)

\* the property default_value: check.invariant(self.has_default_value, ...)
default_value_property(self) ==
    IF has_default_value(self)
    THEN Ok(self._default_value)
    ELSE Raise(CheckError, "Can only fetch default_value if has_default_value")

\* combine_with_inferred, lines 310-312: its default
combine_default_value_none_is_unset(self, inferred) ==
    IF ~has_default_value(self) \/ self._default_value = PyNone
    THEN inferred.default_value
    ELSE self._default_value

combine_default_value(self, inferred) ==
    IF ~has_default_value(self)
    THEN inferred.default_value
    ELSE self._default_value

combine_with_inferred_unchecked_name(self, inferred) ==
    LET dagster_type == combine_dagster_type(self, inferred) IN
    IF ~dagster_type.ok THEN dagster_type ELSE
    InputDefinition(inferred.name, dagster_type.val,
                    combine_description(self, inferred),
                    combine_default_value(self, inferred),
                    self._root_manager_key, self._metadata, self._asset_key,
                    self._asset_partitions_fn, self._input_manager_key)

combine_with_inferred_drops_frame(self, inferred) ==
    IF ~(self._name = inferred.name)
    THEN Raise(CheckError, "InferredInputProps name did not align with InputDefinition name")
    ELSE
    LET dagster_type == combine_dagster_type(self, inferred) IN
    IF ~dagster_type.ok THEN dagster_type ELSE
    InputDefinition(self._name, dagster_type.val,
                    combine_description(self, inferred),
                    combine_default_value(self, inferred),
                    self._root_manager_key, PyNone, self._asset_key,
                    self._asset_partitions_fn, self._input_manager_key)

\* the receiver itself returned when the signature adds nothing
combine_with_inferred_returns_self(self, inferred) ==
    IF ~(self._name = inferred.name)
    THEN Raise(CheckError, "InferredInputProps name did not align with InputDefinition name")
    ELSE
    IF /\ ~self._type_not_set
       /\ (self._description /= PyNone \/ inferred.description = PyNone)
       /\ (has_default_value(self) \/ inferred.default_value = NoValueSentinel)
    THEN Ok(self)
    ELSE
    LET dagster_type == combine_dagster_type(self, inferred) IN
    IF ~dagster_type.ok THEN dagster_type ELSE
    InputDefinition(self._name, dagster_type.val,
                    combine_description(self, inferred),
                    combine_default_value(self, inferred),
                    self._root_manager_key, self._metadata, self._asset_key,
                    self._asset_partitions_fn, self._input_manager_key)

\* the merged fields written into a copy, without the constructor's checks
combine_with_inferred_unvalidated(self, inferred) ==
    IF ~(self._name = inferred.name)
    THEN Raise(CheckError, "InferredInputProps name did not align with InputDefinition name")
    ELSE
    LET dagster_type == combine_dagster_type(self, inferred) IN
    IF ~dagster_type.ok THEN dagster_type ELSE
    New([self EXCEPT !._type_not_set = FALSE,
                     !._dagster_type = dagster_type.val,
                     !._description = combine_description(self, inferred),
                     !._default_value = combine_default_value(self, inferred)])

\* the merged declaration still open to inference when the receiver was
combine_with_inferred_keeps_type_not_set(self, inferred) ==
    IF ~(self._name = inferred.name)
    THEN Raise(CheckError, "InferredInputProps name did not align with InputDefinition name")
    ELSE
    LET dagster_type == combine_dagster_type(self, inferred) IN
    IF ~dagster_type.ok THEN dagster_type ELSE
    LET merged == InputDefinition(self._name, dagster_type.val,
                                  combine_description(self, inferred),
                                  combine_default_value(self, inferred),
                                  self._root_manager_key, self._metadata, self._asset_key,
                                  self._asset_partitions_fn, self._input_manager_key)
    IN IF merged.ok
       THEN [merged EXCEPT !.val._type_not_set = self._type_not_set]
       ELSE merged

combine_with_inferred(self, inferred) ==
    IF ~(self._name = inferred.name)
    THEN Raise(CheckError, "InferredInputProps name did not align with InputDefinition name")
    ELSE
    LET dagster_type == combine_dagster_type(self, inferred) IN
    IF ~dagster_type.ok THEN dagster_type ELSE
    InputDefinition(self._name, dagster_type.val,
                    combine_description(self, inferred),
                    combine_default_value(self, inferred),
                    self._root_manager_key, self._metadata, self._asset_key,
                    self._asset_partitions_fn, self._input_manager_key)

\* the description of the signature left out
create_from_inferred_without_description(inferred) ==
    LET dagster_type == _checked_inferred_type(inferred) IN
    IF ~dagster_type.ok THEN dagster_type ELSE
    InputDefinition(inferred.name, dagster_type.val, PyNone,
                    inferred.default_value, PyNone, PyNone, PyNone, PyNone, PyNone)

create_from_inferred(inferred) ==
    LET dagster_type == _checked_inferred_type(inferred) IN
    IF ~dagster_type.ok THEN dagster_type ELSE
    InputDefinition(inferred.name, dagster_type.val, inferred.description,
                    inferred.default_value, PyNone, PyNone, PyNone, PyNone, PyNone)

\* hardcoded_asset_key, get_asset_key and get_asset_partitions; a function is
\* called with the context, CallFunction being what the user's function answers
CallFunction(f, context) ==
    CASE f.pytype = "lambda" -> PySet(f.v)
      [] f.v = "key_fn" -> AssetKey(context)
      [] f.v = "partitions_fn" -> PySet({context})
      [] OTHER -> PyNone

hardcoded_asset_key(self) ==
    IF ~Callable(self._asset_key) THEN self._asset_key ELSE PyNone

\* the function of a declaration never called
get_asset_key_hardcoded_only(self, context) ==
    hardcoded_asset_key(self)

get_asset_key(self, context) ==
    IF Callable(self._asset_key)
    THEN CallFunction(self._asset_key, context)
    ELSE hardcoded_asset_key(self)

get_asset_partitions(self, context) ==
    IF self._asset_partitions_fn = PyNone
    THEN PyNone
    ELSE CallFunction(self._asset_partitions_fn, context)

\* the invocations of the declaration's functions made by get_asset_key and by
\* get_asset_partitions, in order, each with the argument it was given
get_asset_key_calls(self, context) ==
    IF Callable(self._asset_key)
    THEN <<[f |-> self._asset_key, arg |-> context]>>
    ELSE <<>>

get_asset_partitions_calls(self, context) ==
    IF self._asset_partitions_fn = PyNone
    THEN <<>>
    ELSE <<[f |-> self._asset_partitions_fn, arg |-> context]>>

----------------------------------------------------------------------------
(* InputPointer, FanInInputPointer, InputMapping. *)

InputPointer(solid_name, input_name) ==
    [cls |-> "InputPointer", solid_name |-> solid_name, input_name |-> input_name,
     fan_in_index |-> PyNone]

FanInInputPointer(solid_name, input_name, fan_in_index) ==
    [cls |-> "FanInInputPointer", solid_name |-> solid_name, input_name |-> input_name,
     fan_in_index |-> fan_in_index]

InputMapping(graph_input_name, mapped_node_name, mapped_node_input_name, fan_in_index, graph_input_description, dagster_type) ==
    [cls |-> "InputMapping",
     graph_input_name |-> graph_input_name,
     mapped_node_name |-> mapped_node_name,
     mapped_node_input_name |-> mapped_node_input_name,
     fan_in_index |-> fan_in_index,
     graph_input_description |-> graph_input_description,
     dagster_type |-> dagster_type]

maps_to_by_truth(self) ==
    IF Truthy(self.fan_in_index)
    THEN FanInInputPointer(self.mapped_node_name, self.mapped_node_input_name,
                           self.fan_in_index)
    ELSE InputPointer(self.mapped_node_name, self.mapped_node_input_name)

maps_to(self) ==
    IF self.fan_in_index /= PyNone
    THEN FanInInputPointer(self.mapped_node_name, self.mapped_node_input_name,
                           self.fan_in_index)
    ELSE InputPointer(self.mapped_node_name, self.mapped_node_input_name)

maps_to_fan_in(self) == maps_to(self).cls = "FanInInputPointer"

\* the index between brackets
describe_bracketed(self) ==
    LET idx == IF maps_to(self).cls = "FanInInputPointer"
               THEN "[" \o ToString(maps_to(self).fan_in_index.v) \o "]"
               ELSE ""
    IN self.graph_input_name \o " -> " \o maps_to(self).solid_name \o ":"
           \o maps_to(self).input_name \o idx

\* the f-string of describe: an int is formatted in decimal, "" as nothing
describe(self) ==
    LET idx == IF maps_to(self).cls = "FanInInputPointer"
               THEN ToString(maps_to(self).fan_in_index.v)
               ELSE ""
    IN self.graph_input_name \o " -> " \o maps_to(self).solid_name \o ":"
           \o maps_to(self).input_name \o idx

\* the description left behind
mapping_to_without_description(self, solid_name, input_name, fan_in_index) ==
    New(InputMapping(self._name, solid_name, input_name, fan_in_index,
                    PyNone, self._dagster_type))

mapping_to(self, solid_name, input_name, fan_in_index) ==
    New(InputMapping(self._name, solid_name, input_name, fan_in_index,
                    self._description, self._dagster_type))

get_definition(self) ==
    InputDefinition(self.graph_input_name, self.dagster_type,
                    self.graph_input_description, NoValueSentinel, PyNone, PyNone,
                    PyNone, PyNone, PyNone)

----------------------------------------------------------------------------
(* In, the declaration without a name. *)

In(dagster_type, description, default_value, root_manager_key, metadata, asset_key, asset_partitions, input_manager_key) ==
    IF manager_keys_conflict(root_manager_key, input_manager_key)
    THEN Raise(DagsterInvalidDefinitionError,
               "Can't supply both root input manager key and input manager key")
    ELSE
    LET t == IF dagster_type = NoValueSentinel
             THEN Ok(NoValueSentinel)
             ELSE resolve_dagster_type(dagster_type) IN
    IF ~t.ok THEN t ELSE
    IF ~opt_inst_asset_key_or_function(asset_key)
    THEN Raise(CheckError, "asset_key is not an AssetKey or a function")
    ELSE
    New([cls |-> "In",
        dagster_type |-> t.val,
        description |-> description,
        default_value |-> default_value,
        root_manager_key |-> root_manager_key,
        metadata |-> opt_dict_param(metadata),
        asset_key |-> asset_key,
        asset_partitions |-> asset_partitions,
        input_manager_key |-> input_manager_key])

\* None passed for a declaration without default
from_definition_none_default(input_def_) ==
    In(input_def_._dagster_type, input_def_._description,
       IF has_default_value(input_def_) THEN input_def_._default_value ELSE PyNone,
       input_def_._root_manager_key, input_def_._metadata, input_def_._asset_key,
       input_def_._asset_partitions_fn, input_def_._input_manager_key)

from_definition(input_def_) ==
    In(input_def_._dagster_type, input_def_._description, input_def_._default_value,
       input_def_._root_manager_key, input_def_._metadata, input_def_._asset_key,
       input_def_._asset_partitions_fn, input_def_._input_manager_key)

to_definition(self, name) ==
    LET dagster_type == IF self.dagster_type /= NoValueSentinel
                        THEN self.dagster_type
                        ELSE PyNone
    IN InputDefinition(name, dagster_type, self.description, self.default_value,
                       self.root_manager_key, self.metadata, self.asset_key,
                       self.asset_partitions, self.input_manager_key)

----------------------------------------------------------------------------
(* Inputs of the operations. *)

\* the names given to a constructor; "y" comes in through the inferred properties
Names == {"x", "bad name"}
TypeSpecifiers == {PyNone, IntClass, DagsterAny, DagsterNothing, BadSpecifier}
InTypeSpecifiers == (TypeSpecifiers \ {PyNone}) \cup {NoValueSentinel}
Descriptions == {PyNone, PyStr(""), PyStr("d")}
DefaultValues == {NoValueSentinel, PyNone, PyInt(0), PyStr("5")}
RootManagerKeys == {PyNone, PyStr(""), PyStr("rk")}
InputManagerKeys == {PyNone, PyStr("ik")}
Metadatas == {PyNone, PyDict({<<"k", "v">>})}
AssetKeys == {PyNone, AssetKey("ak"), PyFunction("key_fn")}
AssetPartitions == {PyNone, PySet({}), PySet({"p1", "p2"}), PyFunction("partitions_fn")}

Annotations == {ParameterEmpty, PyNone, IntClass, DagsterNothing, BadSpecifier}
InferredDescriptions == {PyNone, PyStr("i")}
InferredDefaultValues == {NoValueSentinel, PyInt(0), PyStr("5")}
Inferreds ==
    {InferredInputProps(n, a, d, v) :
        n \in ValidNames, a \in Annotations, d \in InferredDescriptions,
        v \in InferredDefaultValues}

NodeNames == {"node"}
NodeInputNames == {"port", "port2"}
FanInIndexes == {PyNone} \cup {PyInt(k) : k \in -1 .. MaxFanIn}
Contexts == {"c1", "c2"}

\* the keyword arguments of a constructor call: the optional arguments with
\* the values they have when they are left out
Kwargs(type_specifiers) ==
    [dagster_type : type_specifiers, description : Descriptions,
     default_value : DefaultValues, root_manager_key : RootManagerKeys,
     metadata : Metadatas, asset_key : AssetKeys,
     asset_partitions : AssetPartitions, input_manager_key : InputManagerKeys]

Supplied(x, default) == IF x = default THEN 0 ELSE 1

NumSupplied(kw, type_default) ==
    Supplied(kw.dagster_type, type_default) + Supplied(kw.description, PyNone)
    + Supplied(kw.default_value, NoValueSentinel) + Supplied(kw.root_manager_key, PyNone)
    + Supplied(kw.metadata, PyNone) + Supplied(kw.asset_key, PyNone)
    + Supplied(kw.asset_partitions, PyNone) + Supplied(kw.input_manager_key, PyNone)

----------------------------------------------------------------------------
(* The state machine: the declaration, the template and the mapping a caller *)
(* has in hand, and the record of the last call: its receiver, arguments and *)
(* outcome. A constructor call depends on nothing before it and starts a     *)
(* run; a method is called on the object in hand; Rebind is the caller       *)
(* keeping the object a method returned.                                     *)

Call(op, self, args, out) == [op |-> op, self |-> self, args |-> args, out |-> out]

NoCall == Call("none", NoObj, <<>>, Ok(NoObj))

Init ==
    /\ input_def = NoObj
    /\ in_def = NoObj
    /\ mapping = NoObj
    /\ last = NoCall

AtStart == last.op = "none"

\* the object in hand was just constructed or just kept
InHand(obj) == obj /= NoObj /\ last.op \in {"InputDefinition", "In", "InputMapping", "Rebind"}

\* InputDefinition(name, ...)
Construct ==
    /\ AtStart
    /\ \E name \in Names, kw \in Kwargs(TypeSpecifiers) :
        LET out == InputDefinition(name, kw.dagster_type, kw.description,
                                   kw.default_value, kw.root_manager_key, kw.metadata,
                                   kw.asset_key, kw.asset_partitions,
                                   kw.input_manager_key)
        IN /\ NumSupplied(kw, PyNone) <= MaxArgs
           /\ last' = Call("InputDefinition", NoObj, [name |-> name, kw |-> kw], out)
           /\ input_def' = out.val
           /\ UNCHANGED <<in_def, mapping>>

\* In(...)
ConstructIn ==
    /\ AtStart
    /\ \E kw \in Kwargs(InTypeSpecifiers) :
        LET out == In(kw.dagster_type, kw.description, kw.default_value,
                      kw.root_manager_key, kw.metadata, kw.asset_key,
                      kw.asset_partitions, kw.input_manager_key)
        IN /\ NumSupplied(kw, NoValueSentinel) <= MaxArgs
           /\ last' = Call("In", NoObj, [kw |-> kw], out)
           /\ in_def' = out.val
           /\ UNCHANGED <<input_def, mapping>>

\* InputMapping(graph_input_name, mapped_node_name, mapped_node_input_name, fan_in_index)
ConstructMapping ==
    /\ AtStart
    /\ \E name \in ValidNames, solid_name \in NodeNames, input_name \in NodeInputNames,
          fan_in_index \in FanInIndexes :
        LET out == New(InputMapping(name, solid_name, input_name, fan_in_index,
                                   PyNone, PyNone))
        IN /\ last' = Call("InputMapping", NoObj,
                           [solid_name |-> solid_name, input_name |-> input_name,
                            fan_in_index |-> fan_in_index], out)
           /\ mapping' = out.val
           /\ UNCHANGED <<input_def, in_def>>

\* InputDefinition.create_from_inferred(inferred)
CreateFromInferred ==
    /\ AtStart
    /\ \E inferred \in Inferreds :
        /\ last' = Call("create_from_inferred", NoObj, [inferred |-> inferred],
                        create_from_inferred(inferred))
        /\ UNCHANGED <<input_def, in_def, mapping>>

\* input_def.combine_with_inferred(inferred)
CombineWithInferred ==
    /\ InHand(input_def)
    /\ \E inferred \in Inferreds :
        /\ last' = Call("combine_with_inferred", input_def, [inferred |-> inferred],
                        combine_with_inferred(input_def, inferred))
        /\ UNCHANGED <<input_def, in_def, mapping>>

\* input_def.mapping_to(solid_name, input_name, fan_in_index)
MappingTo ==
    /\ InHand(input_def)
    /\ \E solid_name \in NodeNames, input_name \in NodeInputNames,
          fan_in_index \in FanInIndexes :
        /\ last' = Call("mapping_to", input_def,
                        [solid_name |-> solid_name, input_name |-> input_name,
                         fan_in_index |-> fan_in_index],
                        mapping_to(input_def, solid_name, input_name, fan_in_index))
        /\ UNCHANGED <<input_def, in_def, mapping>>

\* input_def.get_asset_key(context)
GetAssetKey ==
    /\ InHand(input_def)
    /\ \E context \in Contexts :
        /\ last' = Call("get_asset_key", input_def, [context |-> context],
                        Called(get_asset_key(input_def, context),
                               get_asset_key_calls(input_def, context)))
        /\ UNCHANGED <<input_def, in_def, mapping>>

\* input_def.get_asset_partitions(context)
GetAssetPartitions ==
    /\ InHand(input_def)
    /\ \E context \in Contexts :
        /\ last' = Call("get_asset_partitions", input_def, [context |-> context],
                        Called(get_asset_partitions(input_def, context),
                               get_asset_partitions_calls(input_def, context)))
        /\ UNCHANGED <<input_def, in_def, mapping>>

\* input_def.default_value
DefaultValue ==
    /\ InHand(input_def)
    /\ last' = Call("default_value", input_def, <<>>, default_value_property(input_def))
    /\ UNCHANGED <<input_def, in_def, mapping>>

\* In.from_definition(input_def)
FromDefinition ==
    /\ InHand(input_def)
    /\ last' = Call("from_definition", NoObj, [input_def |-> input_def],
                    from_definition(input_def))
    /\ UNCHANGED <<input_def, in_def, mapping>>

\* in_def.to_definition(name)
ToDefinition ==
    /\ InHand(in_def)
    /\ \E name \in Names :
        /\ last' = Call("to_definition", in_def, [name |-> name],
                        to_definition(in_def, name))
        /\ UNCHANGED <<input_def, in_def, mapping>>

\* mapping.maps_to and mapping.maps_to_fan_in
MapsTo ==
    /\ InHand(mapping)
    /\ last' = Call("maps_to", mapping, [maps_to_fan_in |-> maps_to_fan_in(mapping)],
                    Ok(maps_to(mapping)))
    /\ UNCHANGED <<input_def, in_def, mapping>>

\* mapping.describe()
Describe ==
    /\ InHand(mapping)
    /\ last' = Call("describe", mapping, <<>>, Ok(PyStr(describe(mapping))))
    /\ UNCHANGED <<input_def, in_def, mapping>>

\* mapping.get_definition()
GetDefinition ==
    /\ InHand(mapping)
    /\ last' = Call("get_definition", mapping, <<>>, get_definition(mapping))
    /\ UNCHANGED <<input_def, in_def, mapping>>

\* the caller keeps the object the last call returned
Rebind ==
    /\ last.op \in {"create_from_inferred", "combine_with_inferred", "mapping_to",
                    "from_definition", "to_definition", "get_definition"}
    /\ last.out.ok
    /\ input_def' = IF last.out.val.cls = "InputDefinition" THEN last.out.val ELSE NoObj
    /\ in_def' = IF last.out.val.cls = "In" THEN last.out.val ELSE NoObj
    /\ mapping' = IF last.out.val.cls = "InputMapping" THEN last.out.val ELSE NoObj
    /\ last' = Call("Rebind", NoObj, <<>>, Ok(NoObj))

Next ==
    \/ Construct
    \/ ConstructIn
    \/ ConstructMapping
    \/ CreateFromInferred
    \/ CombineWithInferred
    \/ MappingTo
    \/ GetAssetKey
    \/ GetAssetPartitions
    \/ DefaultValue
    \/ FromDefinition
    \/ ToDefinition
    \/ MapsTo
    \/ Describe
    \/ GetDefinition
    \/ Rebind

Spec == Init /\ [][Next]_vars

----------------------------------------------------------------------------
(* What the properties below read from a state. *)

\* the last call was self.combine_with_inferred(inferred) with the names aligned
Merged ==
    /\ last.op = "combine_with_inferred"
    /\ last.self._name = last.args.inferred.name

\* the last call was InputDefinition(name, ...) with a name of the grammar
Constructed == last.op = "InputDefinition" /\ last.args.name \in ValidNames

\* every declaration and every template of the state
DeclarationsOfState ==
    {o \in {input_def} \cup
           (IF last.op \in {"InputDefinition", "create_from_inferred",
                            "combine_with_inferred", "to_definition", "get_definition"}
            THEN {last.out.val} ELSE {})
           \cup (IF last.op \in {"combine_with_inferred", "mapping_to", "get_asset_key",
                                 "get_asset_partitions"}
                 THEN {last.self} ELSE {}) : o /= NoObj}

TemplatesOfState ==
    {o \in {in_def} \cup
           (IF last.op \in {"In", "from_definition"} THEN {last.out.val} ELSE {})
           \cup (IF last.op = "to_definition" THEN {last.self} ELSE {}) : o /= NoObj}

\* what section 4.1 of the specification resolves an inferred annotation to
ResolutionOfAnnotation(annotation) ==
    CASE annotation = ParameterEmpty -> DagsterAny
      [] annotation = PyNone -> DagsterNoneType
      [] annotation = IntClass -> DagsterInt
      [] OTHER -> annotation

AnnotationProblem == "Problem using type from type annotation for argument"
NothingDefaultProblem ==
    "Setting a default_value is invalid on InputDefinitions of type Nothing"
ScalarDefaultProblem == "Type check failed for the default_value of InputDefinition"
BothKeysProblem == "Can't supply both root input manager key and input manager key"
NameAlignProblem == "InferredInputProps name did not align with InputDefinition name"

----------------------------------------------------------------------------
(* The claims. *)

\* C1: in a merge with aligned names, a declaration whose type was given
\* keeps its type and never fails on the annotation, which is not resolved
\* (the outcome is the same for every annotation); a declaration whose type
\* was not given gets the resolution of the inferred annotation.
C1_MergedType ==
    Merged =>
        IF ~last.self._type_not_set
        THEN /\ last.out.ok => last.out.val._dagster_type = last.self._dagster_type
             /\ ~last.out.ok => last.out.msg /= AnnotationProblem
             /\ \A a \in Annotations :
                    combine_with_inferred(last.self,
                        [last.args.inferred EXCEPT !.annotation = a]) = last.out
        ELSE last.out.ok =>
                last.out.val._dagster_type
                    = ResolutionOfAnnotation(last.args.inferred.annotation)

\* a given type survives a merge with an annotation that cannot be resolved
C1_Witness ==
    /\ Merged
    /\ ~last.self._type_not_set
    /\ last.args.inferred.annotation = BadSpecifier
    /\ last.out.ok
    /\ last.out.val._dagster_type = DagsterInt

\* C2: in a successful merge the default is the receiver's when it has one
\* (the value None included), else the inferred one (none when the inferred
\* properties have none), whatever type and description were chosen.
C2_MergedDefault ==
    (Merged /\ last.out.ok) =>
        last.out.val._default_value
            = IF last.self._default_value /= NoValueSentinel
              THEN last.self._default_value
              ELSE last.args.inferred.default_value

\* the receiver's default None wins over an inferred default
C2_Witness ==
    /\ Merged
    /\ last.out.ok
    /\ last.self._default_value = PyNone
    /\ last.args.inferred.default_value = PyInt(0)
    /\ last.out.val._default_value = PyNone

\* C3: in a successful merge the description is the receiver's when it is
\* set (not None), else the inferred one (None when both are None).
C3_MergedDescription ==
    (Merged /\ last.out.ok) =>
        last.out.val._description
            = IF last.self._description /= PyNone
              THEN last.self._description
              ELSE last.args.inferred.description

\* the receiver's empty description wins over an inferred description
C3_Witness ==
    /\ Merged
    /\ last.out.ok
    /\ last.self._description = PyStr("")
    /\ last.args.inferred.description = PyStr("i")
    /\ last.out.val._description = PyStr("")

\* C4: a successful merge carries the name, both manager keys, the metadata,
\* the asset key and the asset partitions (as answered for every context)
\* over from the receiver.
C4_MergeFrame ==
    (Merged /\ last.out.ok) =>
        /\ last.out.val._name = last.self._name
        /\ last.out.val._input_manager_key = last.self._input_manager_key
        /\ last.out.val._root_manager_key = last.self._root_manager_key
        /\ last.out.val._metadata = last.self._metadata
        /\ \A c \in Contexts :
            /\ get_asset_key(last.out.val, c) = get_asset_key(last.self, c)
            /\ get_asset_partitions(last.out.val, c) = get_asset_partitions(last.self, c)

\* a merge of a declaration with metadata, asset key and partitions that
\* takes type, description and default from the inferred properties
C4_Witness ==
    /\ Merged
    /\ last.out.ok
    /\ last.self._metadata = PyDict({<<"k", "v">>})
    /\ last.self._asset_key = PyFunction("key_fn")
    /\ last.self._asset_partitions_fn = PyLambdaConst({"p1", "p2"})
    /\ last.self._input_manager_key = PyStr("ik")
    /\ last.out.val._dagster_type = DagsterInt
    /\ last.out.val._description = PyStr("i")
    /\ last.out.val._default_value = PyInt(0)

\* C5 as stated: a merge with another name fails with
\* DagsterInvalidDefinitionError and returns no declaration.
C5_Original ==
    (last.op = "combine_with_inferred" /\ last.self._name /= last.args.inferred.name) =>
        /\ ~last.out.ok
        /\ last.out.val = NoObj
        /\ last.out.err = DagsterInvalidDefinitionError

\* C5 (amended): a merge with another name fails with the CheckError of
\* check.invariant and returns no declaration; the names are checked before
\* the annotation is resolved or any field is merged, so the failure is the
\* same whatever the annotation, the description and the default are.
C5_NameMismatch ==
    (last.op = "combine_with_inferred" /\ last.self._name /= last.args.inferred.name) =>
        /\ ~last.out.ok
        /\ last.out.val = NoObj
        /\ last.out.err = CheckError
        /\ last.out.msg = NameAlignProblem

\* a merge with another name of a declaration without a type and an
\* annotation that cannot be resolved
C5_Witness ==
    /\ last.op = "combine_with_inferred"
    /\ last.self._name /= last.args.inferred.name
    /\ last.self._type_not_set
    /\ last.args.inferred.annotation = BadSpecifier
    /\ ~last.out.ok

\* C6: a construction with the type Nothing and any default but the
\* sentinel (None and 0 included) fails with DagsterInvalidDefinitionError;
\* with the sentinel it does not fail on the default, and succeeds when no
\* manager key and no partitions are given.
C6_NothingDefault ==
    (Constructed /\ last.args.kw.dagster_type = DagsterNothing) =>
        IF last.args.kw.default_value /= NoValueSentinel
        THEN /\ ~last.out.ok
             /\ last.out.err = DagsterInvalidDefinitionError
             /\ last.out.msg = NothingDefaultProblem
        ELSE /\ ~last.out.ok => last.out.msg /= NothingDefaultProblem
             /\ (last.args.kw.root_manager_key = PyNone
                 /\ last.args.kw.asset_partitions = PyNone) => last.out.ok

\* Nothing with the default None is refused
C6_Witness ==
    /\ Constructed
    /\ last.args.kw.dagster_type = DagsterNothing
    /\ last.args.kw.default_value = PyNone
    /\ ~last.out.ok
    /\ last.out.msg = NothingDefaultProblem

\* C7: a construction with the scalar type Int and a default that is not an
\* int fails with DagsterInvalidDefinitionError; an int default is accepted;
\* with a type that is neither Nothing nor a scalar every default is
\* accepted (the construction succeeds when no manager key and no
\* partitions are given).
C7_ScalarDefault ==
    Constructed =>
        LET kw == last.args.kw
            rest_fine == kw.root_manager_key = PyNone /\ kw.asset_partitions = PyNone
        IN /\ (kw.dagster_type = IntClass /\ kw.default_value /= NoValueSentinel
                /\ kw.default_value.pytype /= "int") =>
                    /\ ~last.out.ok
                    /\ last.out.err = DagsterInvalidDefinitionError
                    /\ last.out.msg = ScalarDefaultProblem
           /\ (kw.dagster_type = IntClass /\ kw.default_value.pytype = "int") =>
                    /\ ~last.out.ok => last.out.msg /= ScalarDefaultProblem
                    /\ rest_fine =>
                        last.out.ok /\ last.out.val._default_value = kw.default_value
           /\ kw.dagster_type \in {PyNone, DagsterAny} =>
                    /\ ~last.out.ok => last.out.msg \notin {ScalarDefaultProblem,
                                                           NothingDefaultProblem}
                    /\ rest_fine =>
                        last.out.ok /\ last.out.val._default_value = kw.default_value

\* Int with the default "5" is refused
C7_Witness ==
    /\ Constructed
    /\ last.args.kw.dagster_type = IntClass
    /\ last.args.kw.default_value = PyStr("5")
    /\ ~last.out.ok
    /\ last.out.msg = ScalarDefaultProblem

\* C8: InputDefinition(...) and In(...) with both manager keys non-empty
\* fail, with DagsterInvalidDefinitionError (for InputDefinition: once name,
\* type and default are accepted, or else with the error of that earlier
\* step); no declaration and no template has both keys non-empty.
C8_BothManagerKeys ==
    /\ (last.op \in {"InputDefinition", "In"}
        /\ last.args.kw.root_manager_key.pytype = "str"
        /\ last.args.kw.root_manager_key.v /= ""
        /\ last.args.kw.input_manager_key.pytype = "str"
        /\ last.args.kw.input_manager_key.v /= "") =>
            /\ ~last.out.ok
            /\ last.op = "In" =>
                /\ last.out.err = DagsterInvalidDefinitionError
                /\ last.out.msg = BothKeysProblem
            /\ (last.op = "InputDefinition"
                /\ last.out.msg \notin {"not a valid name", "cannot resolve type",
                                        NothingDefaultProblem, ScalarDefaultProblem}) =>
                /\ last.out.err = DagsterInvalidDefinitionError
                /\ last.out.msg = BothKeysProblem
    /\ \A d \in DeclarationsOfState :
            ~(Truthy(d._root_manager_key) /\ Truthy(d._input_manager_key))
    /\ \A t \in TemplatesOfState :
            ~(Truthy(t.root_manager_key) /\ Truthy(t.input_manager_key))

\* an InputDefinition with both keys and nothing else wrong is refused
C8_Witness ==
    /\ Constructed
    /\ last.args.kw.root_manager_key = PyStr("rk")
    /\ last.args.kw.input_manager_key = PyStr("ik")
    /\ last.args.kw.dagster_type = PyNone
    /\ ~last.out.ok
    /\ last.out.msg = BothKeysProblem

\* C9 as stated: a construction with asset partitions given (a set or a
\* function) and no asset key fails, and so every declaration that answers
\* partitions also has an asset key.
C9_Original ==
    /\ (Constructed
        /\ last.args.kw.asset_partitions /= PyNone
        /\ last.args.kw.asset_key = PyNone) => ~last.out.ok
    /\ \A d \in DeclarationsOfState :
            d._asset_partitions_fn /= PyNone => d._asset_key /= PyNone

\* C10: maps_to is the FanInInputPointer of node, input and index exactly
\* when fan_in_index is not None (0 included), else the InputPointer of node
\* and input; maps_to_fan_in is true exactly when fan_in_index is not None;
\* mapping_to(node, input, index) gives the mapping of that node, input and
\* index.
C10_MapsTo ==
    /\ last.op = "maps_to" =>
        /\ last.out.val
            = IF last.self.fan_in_index = PyNone
              THEN [cls |-> "InputPointer",
                    solid_name |-> last.self.mapped_node_name,
                    input_name |-> last.self.mapped_node_input_name,
                    fan_in_index |-> PyNone]
              ELSE [cls |-> "FanInInputPointer",
                    solid_name |-> last.self.mapped_node_name,
                    input_name |-> last.self.mapped_node_input_name,
                    fan_in_index |-> last.self.fan_in_index]
        /\ last.args.maps_to_fan_in <=> (last.self.fan_in_index /= PyNone)
    /\ last.op = "mapping_to" =>
        /\ last.out.ok
        /\ last.out.val.mapped_node_name = last.args.solid_name
        /\ last.out.val.mapped_node_input_name = last.args.input_name
        /\ last.out.val.fan_in_index = last.args.fan_in_index
        /\ maps_to(last.out.val).cls
            = IF last.args.fan_in_index = PyNone
              THEN "InputPointer" ELSE "FanInInputPointer"

\* the mapping with fan-in index 0 maps to a FanInInputPointer
C10_Witness ==
    /\ last.op = "maps_to"
    /\ last.self.fan_in_index = PyInt(0)
    /\ last.out.val = FanInInputPointer("node", "port", PyInt(0))
    /\ last.args.maps_to_fan_in

\* C11: describe() is "<graph_input_name> -> <node>:<input>" followed by the
\* fan-in index in decimal when there is one and by nothing when there is
\* none: "x -> node:port" for the direct mapping of x, "x -> node:port2" for
\* its mapping with fan-in index 2.
C11_Describe ==
    last.op = "describe" =>
        /\ last.out.val
            = PyStr(last.self.graph_input_name \o " -> " \o last.self.mapped_node_name
                    \o ":" \o last.self.mapped_node_input_name
                    \o (IF last.self.fan_in_index = PyNone
                        THEN ""
                        ELSE ToString(last.self.fan_in_index.v)))
        /\ (last.self.graph_input_name = "x" /\ last.self.mapped_node_name = "node"
            /\ last.self.mapped_node_input_name = "port") =>
                /\ last.self.fan_in_index = PyNone =>
                        last.out.val = PyStr("x -> node:port")
                /\ last.self.fan_in_index = PyInt(2) =>
                        last.out.val = PyStr("x -> node:port2")

\* the mapping of x to node:port with fan-in index 2 is described
C11_Witness ==
    /\ last.op = "describe"
    /\ last.self.graph_input_name = "x"
    /\ last.self.mapped_node_input_name = "port"
    /\ last.self.fan_in_index = PyInt(2)
    /\ last.out.val = PyStr("x -> node:port2")

\* C12 as stated: in every mapping and every FanInInputPointer, obtained
\* through mapping_to or constructed directly, fan_in_index is None or an
\* integer >= 0; no negative index reaches maps_to or describe.
C12_Original ==
    /\ mapping /= NoObj =>
        (mapping.fan_in_index = PyNone \/ mapping.fan_in_index.v >= 0)
    /\ last.op \in {"mapping_to", "InputMapping", "maps_to"} =>
        (last.out.val.fan_in_index = PyNone \/ last.out.val.fan_in_index.v >= 0)
    /\ last.op \in {"maps_to", "describe"} =>
        (last.self.fan_in_index = PyNone \/ last.self.fan_in_index.v >= 0)

\* C13: d.mapping_to(node, input, index) is the mapping with d's name as
\* graph_input_name, d's description, d's type and the node, input and index
\* given; get_definition() of a mapping is a declaration with the mapping's
\* name, description and type (that of d) and with no default, no manager
\* key, empty metadata, no asset key and no partitions.
C13_MappingTo ==
    /\ last.op = "mapping_to" =>
        LET d == last.self
            m == last.out.val
            r == get_definition(m)
        IN /\ last.out.ok
           /\ m.graph_input_name = d._name
           /\ m.graph_input_description = d._description
           /\ m.dagster_type = d._dagster_type
           /\ m.mapped_node_name = last.args.solid_name
           /\ m.mapped_node_input_name = last.args.input_name
           /\ m.fan_in_index = last.args.fan_in_index
           /\ r.ok
           /\ r.val._name = d._name
           /\ r.val._description = d._description
           /\ r.val._dagster_type = d._dagster_type
    /\ last.op = "get_definition" =>
        /\ last.out.ok
        /\ last.out.val._name = last.self.graph_input_name
        /\ last.out.val._description = last.self.graph_input_description
        /\ last.out.val._dagster_type
            = IF last.self.dagster_type = PyNone THEN DagsterAny ELSE last.self.dagster_type
        /\ last.out.val._default_value = NoValueSentinel
        /\ last.out.val._root_manager_key = PyNone
        /\ last.out.val._input_manager_key = PyNone
        /\ last.out.val._metadata = PyDict({})
        /\ last.out.val._asset_key = PyNone
        /\ last.out.val._asset_partitions_fn = PyNone

\* the declaration rebuilt from the mapping of a described Int declaration
C13_Witness ==
    /\ last.op = "get_definition"
    /\ last.self.dagster_type = DagsterInt
    /\ last.self.graph_input_description = PyStr("d")
    /\ last.self.fan_in_index = PyInt(2)
    /\ last.out.ok
    /\ last.out.val._dagster_type = DagsterInt
    /\ last.out.val._description = PyStr("d")

\* C14 as stated: for every declaration d, In.from_definition(d) and then
\* to_definition(d.name) succeed and give a declaration with d's name, type,
\* description, default, manager keys, metadata, and d's answers of
\* get_asset_key and get_asset_partitions for every context.
C14_Original ==
    last.op = "from_definition" =>
        LET d == last.args.input_def
            r == to_definition(last.out.val, d._name)
        IN /\ last.out.ok
           /\ r.ok
           /\ r.val._name = d._name
           /\ r.val._dagster_type = d._dagster_type
           /\ r.val._description = d._description
           /\ r.val._default_value = d._default_value
           /\ r.val._root_manager_key = d._root_manager_key
           /\ r.val._input_manager_key = d._input_manager_key
           /\ r.val._metadata = d._metadata
           /\ \A c \in Contexts :
                /\ get_asset_key(r.val, c) = get_asset_key(d, c)
                /\ get_asset_partitions(r.val, c) = get_asset_partitions(d, c)

\* C15: when t.to_definition(name) succeeds, the declaration has the type Any
\* if t's type is NoValueSentinel and t's type otherwise, and t's
\* description, default, manager keys, metadata, asset key and partitions (a
\* set of t is answered for every context, a function of t is stored);
\* In.from_definition of it succeeds and has t's description, default (the
\* sentinel stays the sentinel, None stays None), manager keys, asset key and
\* partitions, a set of t coming back as the constant function answering it.
C15_Bind ==
    (last.op = "to_definition" /\ last.out.ok) =>
        LET t == last.self
            d == last.out.val
            b == from_definition(d)
            partitions == IF t.asset_partitions.pytype = "set"
                          THEN PyLambdaConst(t.asset_partitions.v)
                          ELSE t.asset_partitions
        IN /\ d._name = last.args.name
           /\ d._dagster_type
                = IF t.dagster_type = NoValueSentinel THEN DagsterAny ELSE t.dagster_type
           /\ d._description = t.description
           /\ d._default_value = t.default_value
           /\ d._root_manager_key = t.root_manager_key
           /\ d._input_manager_key = t.input_manager_key
           /\ d._metadata = t.metadata
           /\ d._asset_key = t.asset_key
           /\ d._asset_partitions_fn = partitions
           /\ t.asset_partitions.pytype = "set" =>
                \A c \in Contexts :
                    get_asset_partitions(d, c) = PySet(t.asset_partitions.v)
           /\ b.ok
           /\ b.val.description = t.description
           /\ b.val.default_value = t.default_value
           /\ b.val.root_manager_key = t.root_manager_key
           /\ b.val.input_manager_key = t.input_manager_key
           /\ b.val.asset_key = t.asset_key
           /\ b.val.asset_partitions = partitions

\* a template without type and without default, with an asset key and a set
\* of partitions, is bound
C15_Witness ==
    /\ last.op = "to_definition"
    /\ last.out.ok
    /\ last.self.dagster_type = NoValueSentinel
    /\ last.self.default_value = NoValueSentinel
    /\ last.self.asset_key = AssetKey("ak")
    /\ last.self.asset_partitions = PySet({"p1", "p2"})
    /\ last.out.val._dagster_type = DagsterAny

\* C16: InputDefinition.create_from_inferred(i) succeeds exactly when
\* InputDefinition(i.name).combine_with_inferred(i) does and then gives the
\* same declaration: named i.name, typed by i's annotation (Any when there is
\* none), with i's description and i's default, and no manager key, metadata,
\* asset key or partitions.
C16_CreateFromInferred ==
    last.op = "create_from_inferred" =>
        LET i == last.args.inferred
            base == InputDefinition(i.name, PyNone, PyNone, NoValueSentinel,
                                    PyNone, PyNone, PyNone, PyNone, PyNone)
            merged == combine_with_inferred(base.val, i)
            d == last.out.val
        IN /\ base.ok
           /\ last.out.ok <=> merged.ok
           /\ last.out.ok =>
                /\ d = merged.val
                /\ d._name = i.name
                /\ d._dagster_type = ResolutionOfAnnotation(i.annotation)
                /\ d._description = i.description
                /\ d._default_value = i.default_value
                /\ d._root_manager_key = PyNone
                /\ d._input_manager_key = PyNone
                /\ d._metadata = PyDict({})
                /\ d._asset_key = PyNone
                /\ d._asset_partitions_fn = PyNone

\* a declaration is derived from a signature with annotation, description
\* and default
C16_Witness ==
    /\ last.op = "create_from_inferred"
    /\ last.out.ok
    /\ last.args.inferred.annotation = IntClass
    /\ last.args.inferred.description = PyStr("i")
    /\ last.args.inferred.default_value = PyInt(0)

\* C17: when the annotation of the signature has to be resolved (in
\* create_from_inferred, and in combine_with_inferred on a declaration whose
\* type was not set) and does not resolve, the call fails with
\* DagsterInvalidDefinitionError about the annotation and the name of the
\* input, and returns no declaration.
C17_AnnotationFailure ==
    LET resolving == \/ last.op = "create_from_inferred"
                     \/ Merged /\ last.self._type_not_set
    IN (resolving /\ last.args.inferred.annotation = BadSpecifier) =>
        /\ ~last.out.ok
        /\ last.out.val = NoObj
        /\ last.out.err = DagsterInvalidDefinitionError
        /\ last.out.msg = AnnotationProblem
        /\ last.out.about = <<last.args.inferred.annotation, last.args.inferred.name>>

\* a declaration without type is merged with a signature whose annotation
\* does not resolve
C17_Witness ==
    /\ Merged
    /\ last.self._type_not_set
    /\ last.args.inferred.annotation = BadSpecifier
    /\ last.out.err = DagsterInvalidDefinitionError

\* C18: get_asset_key(context) of a declaration whose asset key is a function
\* calls that function once, with the context, and returns its answer; with an
\* AssetKey it returns that key and with None it returns None, calling nothing.
C18_GetAssetKey ==
    last.op = "get_asset_key" =>
        LET key == last.self._asset_key
            context == last.args.context
        IN /\ key.pytype = "function" =>
                /\ last.out.calls = <<[f |-> key, arg |-> context]>>
                /\ last.out.val = CallFunction(key, context)
                /\ last.out.val = AssetKey(context)
           /\ key.pytype = "AssetKey" =>
                last.out.val = key /\ last.out.calls = <<>>
           /\ key = PyNone =>
                last.out.val = PyNone /\ last.out.calls = <<>>

\* the asset key of a declaration with a function is asked for
C18_Witness ==
    /\ last.op = "get_asset_key"
    /\ last.self._asset_key = PyFunction("key_fn")
    /\ last.args.context = "c2"
    /\ last.out.val = AssetKey("c2")

\* C19: a declaration constructed with a set S of partitions answers S for
\* every context, one constructed with a function stores that function, one
\* constructed without partitions stores None; get_asset_partitions(context)
\* returns None when nothing is stored, S for the constant function of S, and
\* otherwise the answer of the stored function, called once with the context.
C19_GetAssetPartitions ==
    /\ (last.op = "InputDefinition" /\ last.out.ok) =>
        LET given == last.args.kw.asset_partitions
            d == last.out.val
        IN /\ given.pytype = "set" =>
                \A c \in Contexts :
                    /\ get_asset_partitions(d, c) = PySet(given.v)
                    /\ get_asset_partitions_calls(d, c)
                         = <<[f |-> PyLambdaConst(given.v), arg |-> c]>>
           /\ given.pytype = "function" => d._asset_partitions_fn = given
           /\ given = PyNone => d._asset_partitions_fn = PyNone
    /\ last.op = "get_asset_partitions" =>
        LET fn == last.self._asset_partitions_fn
            context == last.args.context
        IN /\ fn = PyNone =>
                last.out.val = PyNone /\ last.out.calls = <<>>
           /\ fn.pytype = "lambda" => last.out.val = PySet(fn.v)
           /\ fn.pytype = "function" =>
                /\ last.out.calls = <<[f |-> fn, arg |-> context]>>
                /\ last.out.val = CallFunction(fn, context)
                /\ last.out.val = PySet({context})

\* the partitions of a declaration constructed with a set are asked for
C19_Witness ==
    /\ last.op = "get_asset_partitions"
    /\ last.self._asset_partitions_fn = PyLambdaConst({"p1", "p2"})
    /\ last.out.val = PySet({"p1", "p2"})

\* C20: combine_with_inferred, mapping_to, get_asset_key, get_asset_partitions
\* and In.from_definition leave the declaration they are called on with the
\* fields it had before the call, get_definition does so for its mapping, and
\* a successful combine_with_inferred returns a newly constructed declaration,
\* never the one it was called on.
C20_Immutable ==
    /\ last.op \in {"combine_with_inferred", "mapping_to", "get_asset_key",
                    "get_asset_partitions"} => input_def = last.self
    /\ last.op = "from_definition" => input_def = last.args.input_def
    /\ last.op = "get_definition" => mapping = last.self
    /\ (last.op = "combine_with_inferred" /\ last.out.ok) => last.out.fresh

\* a merge that changes nothing: the declaration returned has the fields of
\* the one it was called on and is a new one
C20_Witness ==
    /\ last.op = "combine_with_inferred"
    /\ last.out.ok
    /\ last.out.fresh
    /\ input_def = last.self
    /\ last.out.val = last.self

\* the constructor was called with a name of the grammar, a type that
\* resolves, a default that _check_default_value accepts for that type, and
\* other arguments that meet the preconditions on keys and partitions
FetchDefaultProblem == "Can only fetch default_value if has_default_value"

\* the type a specifier given to the constructor stands for
ResolutionOfSpecifier(dagster_type) ==
    CASE dagster_type = PyNone -> DagsterAny
      [] dagster_type = IntClass -> DagsterInt
      [] OTHER -> dagster_type

ConstructedWithFittingDefault ==
    /\ Constructed
    /\ resolve_dagster_type(last.args.kw.dagster_type).ok
    /\ LET t == resolve_dagster_type(last.args.kw.dagster_type).val
           v == last.args.kw.default_value
       IN \/ v = NoValueSentinel
          \/ /\ ~is_nothing(t)
             /\ IsBuiltinScalar(t) => type_check_scalar_value(t, v)
    /\ ~(Truthy(last.args.kw.root_manager_key) /\ Truthy(last.args.kw.input_manager_key))
    /\ last.args.kw.asset_partitions = PyNone \/ last.args.kw.asset_key /= PyNone

\* C21 as stated: such a construction succeeds, and the properties name,
\* dagster_type and default_value of the declaration return the name, the
\* resolved type and the default that were supplied, NoValueSentinel included.
C21_Original ==
    ConstructedWithFittingDefault =>
        /\ last.out.ok
        /\ name_property(last.out.val) = Ok(last.args.name)
        /\ dagster_type_property(last.out.val)
             = Ok(ResolutionOfSpecifier(last.args.kw.dagster_type))
        /\ default_value_property(last.out.val) = Ok(last.args.kw.default_value)

\* C21 amended: such a construction succeeds; name and dagster_type return
\* the supplied name and the resolved type; when a default other than
\* NoValueSentinel was supplied (None included), has_default_value is true and
\* default_value returns it; when NoValueSentinel was supplied, the sentinel
\* is stored, has_default_value is false and default_value fails with
\* CheckError.
C21_ReadBack ==
    /\ ConstructedWithFittingDefault =>
        LET d == last.out.val
            v == last.args.kw.default_value
        IN /\ last.out.ok
           /\ name_property(d) = Ok(last.args.name)
           /\ dagster_type_property(d)
                = Ok(ResolutionOfSpecifier(last.args.kw.dagster_type))
           /\ d._default_value = v
           /\ has_default_value(d) <=> v /= NoValueSentinel
           /\ v /= NoValueSentinel => default_value_property(d) = Ok(v)
           /\ v = NoValueSentinel =>
                /\ ~default_value_property(d).ok
                /\ default_value_property(d).err = CheckError
                /\ default_value_property(d).msg = FetchDefaultProblem
    /\ last.op = "default_value" =>
        IF last.self._default_value = NoValueSentinel
        THEN ~last.out.ok /\ last.out.err = CheckError
        ELSE last.out = Ok(last.self._default_value)

\* the default of a declaration constructed without default is read
C21_Witness ==
    /\ last.op = "default_value"
    /\ last.self._default_value = NoValueSentinel
    /\ last.self._dagster_type = DagsterInt
    /\ last.out.err = CheckError

\* C22: InputDefinition(...) checks the name, then resolves the type, then
\* checks the default against the resolved type, then the two manager keys,
\* then asset_partitions without asset_key: the error of a call is the error
\* of the first of these steps that its arguments violate, whatever the
\* arguments of the later steps are.
NameProblem == "not a valid name"
TypeProblem == "cannot resolve type"
PartitionsProblem ==
    "Cannot specify asset_partitions argument without also specifying asset_key"

BadName == last.args.name \notin ValidNames
BadType == last.args.kw.dagster_type = BadSpecifier
BadDefault ==
    LET t == ResolutionOfSpecifier(last.args.kw.dagster_type)
        v == last.args.kw.default_value
    IN /\ v /= NoValueSentinel
       /\ \/ t = DagsterNothing
          \/ t = DagsterInt /\ v.pytype /= "int"
          \/ t = DagsterString /\ v.pytype /= "str"
BothKeys ==
    /\ last.args.kw.root_manager_key \notin {PyNone, PyStr("")}
    /\ last.args.kw.input_manager_key \notin {PyNone, PyStr("")}
PartitionsWithoutKey ==
    /\ last.args.kw.asset_partitions \notin {PyNone, PySet({})}
    /\ last.args.kw.asset_key = PyNone

C22_Order ==
    last.op = "InputDefinition" =>
        /\ BadName => ~last.out.ok /\ last.out.msg = NameProblem
        /\ (~BadName /\ BadType) => ~last.out.ok /\ last.out.msg = TypeProblem
        /\ (~BadName /\ ~BadType /\ BadDefault) =>
                /\ ~last.out.ok
                /\ last.out.err = DagsterInvalidDefinitionError
                /\ last.out.msg \in {NothingDefaultProblem, ScalarDefaultProblem}
        /\ (~BadName /\ ~BadType /\ ~BadDefault /\ BothKeys) =>
                /\ ~last.out.ok
                /\ last.out.err = DagsterInvalidDefinitionError
                /\ last.out.msg = BothKeysProblem
        /\ (~BadName /\ ~BadType /\ ~BadDefault /\ ~BothKeys /\ PartitionsWithoutKey) =>
                /\ ~last.out.ok
                /\ last.out.err = CheckError
                /\ last.out.msg = PartitionsProblem
        /\ ~last.out.ok => BadName \/ BadType \/ BadDefault \/ BothKeys \/ PartitionsWithoutKey

\* a call that violates the default step and the key step fails with the
\* error of the default
C22_Witness ==
    /\ last.op = "InputDefinition"
    /\ ~BadName /\ ~BadType
    /\ BadDefault /\ BothKeys
    /\ last.out.msg = NothingDefaultProblem

\* C23: where the type comes from the annotation (create_from_inferred, and
\* combine_with_inferred on a declaration whose type was not set), no
\* annotation gives Any, the annotation None gives the type of the None value
\* and not Any, and any other annotation gives what it resolves to; a
\* template without type, bound to a name and merged with the annotation
\* None, gives a declaration of the type of the None value.
C23_ThreeCases ==
    /\ LET inferring == \/ last.op = "create_from_inferred"
                        \/ Merged /\ last.self._type_not_set
       IN (inferring /\ last.out.ok) =>
            LET annotation == last.args.inferred.annotation
                t == last.out.val._dagster_type
            IN /\ annotation = ParameterEmpty => t = DagsterAny
               /\ annotation = PyNone => t = DagsterNoneType /\ t /= DagsterAny
               /\ annotation = IntClass => t = DagsterInt
               /\ annotation \in DagsterTypes => t = annotation
    /\ (last.op = "to_definition" /\ last.out.ok
        /\ last.self.dagster_type = NoValueSentinel) =>
            /\ last.out.val._type_not_set
            /\ \A i \in Inferreds :
                 (i.name = last.args.name /\ i.annotation = PyNone) =>
                    LET m == combine_with_inferred(last.out.val, i)
                    IN m.ok => m.val._dagster_type = DagsterNoneType

\* a template without type is bound to a name, and the declaration merges
\* with the annotation None into a declaration of the type of the None value
C23_Witness ==
    /\ last.op = "to_definition"
    /\ last.self.dagster_type = NoValueSentinel
    /\ last.out.ok
    /\ last.out.val._dagster_type = DagsterAny
    /\ LET m == combine_with_inferred(last.out.val,
                    InferredInputProps(last.args.name, PyNone, PyNone, NoValueSentinel))
       IN m.ok /\ m.val._dagster_type = DagsterNoneType

\* the default of a declaration fits its type
DefaultFits(dagster_type, default_value) ==
    \/ default_value = NoValueSentinel
    \/ /\ dagster_type /= DagsterNothing
       /\ dagster_type = DagsterInt => default_value.pytype = "int"
       /\ dagster_type = DagsterString => default_value.pytype = "str"

\* C24: every declaration of every state, however it was made, has a default
\* that fits its type: none when the type is Nothing, one that passes the
\* scalar check when the type is a built-in scalar; and a merge that takes
\* the type from the annotation while the default in force (the receiver's,
\* or the signature's when the receiver has none) does not fit that type
\* fails with DagsterInvalidDefinitionError and returns no declaration.
C24_DefaultFitsType ==
    /\ \A d \in DeclarationsOfState : DefaultFits(d._dagster_type, d._default_value)
    /\ (Merged /\ last.self._type_not_set
        /\ last.args.inferred.annotation /= BadSpecifier) =>
            LET t == ResolutionOfAnnotation(last.args.inferred.annotation)
                v == IF last.self._default_value /= NoValueSentinel
                     THEN last.self._default_value
                     ELSE last.args.inferred.default_value
            IN ~DefaultFits(t, v) =>
                /\ ~last.out.ok
                /\ last.out.val = NoObj
                /\ last.out.err = DagsterInvalidDefinitionError
                /\ last.out.msg \in {NothingDefaultProblem, ScalarDefaultProblem}

\* a declaration without type whose default is a string is merged with the
\* annotation int
C24_Witness ==
    /\ Merged
    /\ last.self._type_not_set
    /\ last.self._dagster_type = DagsterAny
    /\ last.self._default_value = PyStr("5")
    /\ last.args.inferred.annotation = IntClass
    /\ last.out.err = DagsterInvalidDefinitionError
    /\ last.out.msg = ScalarDefaultProblem

\* C25 as stated: for every declaration d and every signature i of d's name
\* whose annotation resolves and whose resulting default fits the resulting
\* type, d.combine_with_inferred(i) succeeds.
C25_Original ==
    (Merged /\ last.args.inferred.annotation /= BadSpecifier) =>
        LET d == last.self
            i == last.args.inferred
            t == IF d._type_not_set
                 THEN ResolutionOfAnnotation(i.annotation)
                 ELSE d._dagster_type
            v == IF d._default_value /= NoValueSentinel
                 THEN d._default_value
                 ELSE i.default_value
        IN DefaultFits(t, v) => last.out.ok

\* C26: the declaration m returned by a successful combine_with_inferred(i)
\* has _type_not_set false, also when the receiver's type was not set; every
\* further merge of m that succeeds has the type of m whatever the
\* annotation is, and m.combine_with_inferred(i) succeeds with the type,
\* description and default of m.
C26_TypeFixedByFirstMerge ==
    (Merged /\ last.out.ok) =>
        LET m == last.out.val
            i == last.args.inferred
            again == combine_with_inferred(m, i)
        IN /\ ~m._type_not_set
           /\ \A j \in Inferreds :
                j.name = m._name =>
                    LET r == combine_with_inferred(m, j)
                    IN r.ok => r.val._dagster_type = m._dagster_type
           /\ again.ok
           /\ again.val._dagster_type = m._dagster_type
           /\ again.val._description = m._description
           /\ again.val._default_value = m._default_value

\* a declaration without type took the type int from the annotation, and a
\* further merge with the annotation Nothing keeps int
C26_Witness ==
    /\ Merged
    /\ last.self._type_not_set
    /\ last.args.inferred.annotation = IntClass
    /\ last.out.ok
    /\ last.out.val._dagster_type = DagsterInt
    /\ LET r == combine_with_inferred(last.out.val,
                    InferredInputProps(last.out.val._name, DagsterNothing, PyNone,
                                       NoValueSentinel))
       IN r.ok /\ r.val._dagster_type = DagsterInt

\* C27 as stated: for every declaration d, the declaration
\* In.from_definition(d).to_definition(d.name) has d's _type_not_set, and its
\* merge with a signature of d's name has the type of d's merge with that
\* signature; likewise d.mapping_to(..).get_definition() for a d whose type
\* was not set.
C27_Original ==
    /\ (last.op = "from_definition" /\ last.out.ok) =>
        LET d == last.args.input_def
            r == to_definition(last.out.val, d._name)
        IN r.ok =>
            /\ r.val._type_not_set = d._type_not_set
            /\ \A i \in Inferreds :
                 i.name = d._name =>
                    LET of_d == combine_with_inferred(d, i)
                        of_r == combine_with_inferred(r.val, i)
                    IN (of_d.ok /\ of_r.ok) =>
                         of_r.val._dagster_type = of_d.val._dagster_type
    /\ (last.op = "mapping_to" /\ last.out.ok /\ last.self._type_not_set) =>
        LET r == get_definition(last.out.val)
        IN r.ok => r.val._type_not_set

\* the mappings of a graph input to the inputs and fan-in indexes of the
\* model, the indexes from 0 on
MappingsOf(graph_input_name) ==
    {InputMapping(graph_input_name, n, p, f, PyNone, PyNone) :
        n \in NodeNames, p \in NodeInputNames,
        f \in {x \in FanInIndexes : x = PyNone \/ x.v >= 0}}

\* C28 as stated: two mappings of the same graph input whose maps_to differ
\* (in node, input, kind of pointer or fan-in index) have describe() strings
\* that differ.
C28_Original ==
    last.op = "describe" =>
        \A other \in MappingsOf(last.self.graph_input_name) :
            maps_to(other) /= maps_to(last.self) =>
                describe(other) /= last.out.val.v

====
